---- MODULE Spec2Model ----
(***************************************************************************)
(* Cameron: pitch / interval arithmetic, enharmonic spelling, chords,      *)
(* scales and reverse chord lookup (src/src/notes.rs, chords.rs,           *)
(* scales.rs).  The library is a set of pure functions; a behaviour of     *)
(* this model is one call: Init draws the call and its arguments, the      *)
(* action of the called function computes what the code computes.          *)
(*                                                                         *)
(* u8 arithmetic keeps its width.  An overflowing u8 operation panics when *)
(* the crate is built with overflow checks (the debug profile) and wraps   *)
(* modulo 256 otherwise (the release profile); overflow_checks is the      *)
(* profile of the build under consideration.                               *)
(***************************************************************************)
EXTENDS Integers, Sequences, FiniteSets, TLC

VARIABLES overflow_checks, call, pc, ret

vars == <<overflow_checks, call, pc, ret>>

(***************************************************************************)
(* Bounds of the model.                                                    *)
(***************************************************************************)
\* Interval numbers handed to Interval::new are drawn from 0..MaxNumber.
MaxNumber == 8
\* reverse_lookup is handed every sequence of at most MaxNotes notes, and
\* the notes of every chord.
MaxNotes == 1
\* Parsed texts end in every sequence of at most MaxTailLen tail characters.
MaxTailLen == 4
\* Scale texts have at most MaxSpaces spaces between pitch and quality word.
MaxSpaces == 2

(***************************************************************************)
(* Results of a Rust call: a value, or a panic (the call aborts).          *)
(***************************************************************************)
Ok(v) == [panic |-> FALSE, val |-> v]
Panic == [panic |-> TRUE]

\* Option<T>
Some(v) == [some |-> TRUE, val |-> v]
None == [some |-> FALSE]

(***************************************************************************)
(* u8 arithmetic: a - b, a + b on results, panicking or wrapping on        *)
(* overflow according to the build profile.                                *)
(***************************************************************************)
u8_sub(a, b) ==
    IF a.panic THEN Panic
    ELSE IF a.val - b >= 0 THEN Ok(a.val - b)
    ELSE IF overflow_checks THEN Panic
    ELSE Ok((a.val - b) % 256)

u8_add(a, b) ==
    IF a.panic THEN Panic
    ELSE IF a.val + b < 256 THEN Ok(a.val + b)
    ELSE IF overflow_checks THEN Panic
    ELSE Ok((a.val + b) % 256)

(***************************************************************************)
(* notes.rs: WhiteNote, Note, IntervalQuality, Interval                    *)
(***************************************************************************)
WhiteNote == <<"C", "D", "E", "F", "G", "A", "B">>

WhiteNotes == {WhiteNote[i] : i \in 1..Len(WhiteNote)}

Natural(w) == [kind |-> "WhiteNote", white |-> w]
Sharp(w) == [kind |-> "Sharp", white |-> w]
Flat(w) == [kind |-> "Flat", white |-> w]

Note == {Natural(w) : w \in WhiteNotes} \cup {Sharp(w) : w \in WhiteNotes}
            \cup {Flat(w) : w \in WhiteNotes}

IntervalQuality == {"Perfect", "Major", "Minor", "Augmented", "Diminished"}

Interval == [quality : IntervalQuality, number : 0..MaxNumber]

Interval_new(quality, number) == [quality |-> quality, number |-> number]

RECURSIVE get_number_semitones(_)
get_number_semitones(self) ==
    CASE self.quality = "Perfect" ->
            (CASE self.number = 1 -> Ok(0)
               [] self.number = 4 -> Ok(5)
               [] self.number = 5 -> Ok(7)
               [] self.number = 8 -> Ok(12)
               [] OTHER -> Panic)
      [] self.quality = "Major" ->
            (CASE self.number = 2 -> Ok(2)
               [] self.number = 3 -> Ok(4)
               [] self.number = 6 -> Ok(9)
               [] self.number = 7 -> Ok(11)
               [] OTHER -> Panic)
      [] self.quality = "Minor" ->
            u8_sub(get_number_semitones(Interval_new("Major", self.number)), 1)
      [] self.quality = "Augmented" ->
            u8_add(get_number_semitones(Interval_new("Perfect", self.number)), 1)
      [] self.quality = "Diminished" ->
            u8_sub(get_number_semitones(Interval_new("Perfect", self.number)), 1)

WhiteNote_get_index(self) ==
    CASE self = "C" -> 0
      [] self = "D" -> 1
      [] self = "E" -> 2
      [] self = "F" -> 3
      [] self = "G" -> 4
      [] self = "A" -> 5
      [] self = "B" -> 6

successor(self) ==
    CASE self = "C" -> "D"
      [] self = "D" -> "E"
      [] self = "E" -> "F"
      [] self = "F" -> "G"
      [] self = "G" -> "A"
      [] self = "A" -> "B"
      [] self = "B" -> "C"

\* `for _ in 0..n { note = note.successor() }`: successor applied n times
\* (the n applications are split in two halves to keep the evaluation shallow
\* when a wrapped u8 makes n as large as 255).
RECURSIVE nth_successor(_, _)
nth_successor(self, n) ==
    IF n = 0 THEN self
    ELSE IF n = 1 THEN successor(self)
    ELSE CHOOSE note \in {nth_successor(half, n - (n \div 2)) :
                              half \in {nth_successor(self, n \div 2)}} : TRUE

up_semitone(self) ==
    CASE self.kind = "WhiteNote" -> Sharp(self.white)
      [] self.kind = "Sharp" ->
            (CASE self.white = "C" -> Natural("D")
               [] self.white = "D" -> Natural("E")
               [] self.white = "E" -> Sharp("F")
               [] self.white = "F" -> Natural("G")
               [] self.white = "G" -> Natural("A")
               [] self.white = "A" -> Natural("B")
               [] self.white = "B" -> Sharp("C"))
      [] self.kind = "Flat" -> Natural(self.white)

\* `for _ in 0..n { note = note.up_semitone() }`: up_semitone applied n times
RECURSIVE up_semitones(_, _)
up_semitones(self, n) ==
    IF n = 0 THEN self
    ELSE IF n = 1 THEN up_semitone(self)
    ELSE CHOOSE note \in {up_semitones(half, n - (n \div 2)) :
                              half \in {up_semitones(self, n \div 2)}} : TRUE

RECURSIVE Note_get_index(_)
Note_get_index(self) ==
    CASE self.kind = "WhiteNote" ->
            (CASE self.white = "C" -> Ok(0)
               [] self.white = "D" -> Ok(2)
               [] self.white = "E" -> Ok(4)
               [] self.white = "F" -> Ok(5)
               [] self.white = "G" -> Ok(7)
               [] self.white = "A" -> Ok(9)
               [] self.white = "B" -> Ok(11))
      [] self.kind = "Sharp" ->
            LET i == Note_get_index(Natural(self.white))
            IN  IF i.panic THEN Panic ELSE Ok((1 + i.val) % 12)
      [] self.kind = "Flat" ->
            u8_sub(Note_get_index(Natural(self.white)), 1)

\* impl PartialEq for Note
Note_eq(self, other) ==
    LET i == Note_get_index(self)
        j == Note_get_index(other)
    IN  IF i.panic \/ j.panic THEN Panic ELSE Ok(i.val = j.val)

\* impl PartialOrd for Note, as used by `<`
Note_lt(self, other) ==
    LET i == Note_get_index(self)
        j == Note_get_index(other)
    IN  IF i.panic \/ j.panic THEN Panic ELSE Ok(i.val < j.val)

get_white_note(self) == self.white

add_accidentals(self, other) ==
    LET other_note == Natural(other)
        e == Note_eq(self, other_note)
    IN  IF e.panic THEN Panic
        ELSE IF e.val THEN Ok(self)
        ELSE LET l == Note_lt(self, other_note)
             IN  IF l.panic THEN Panic
                 ELSE IF l.val THEN Ok(Flat(other))
                 ELSE Ok(Sharp(other))

up_interval(self, interval) ==
    LET white_note == get_white_note(self)
        steps == u8_sub(Ok(interval.number), 1)
    IN  IF steps.panic THEN Panic
        ELSE LET upper_white_note == nth_successor(white_note, steps.val)
                 n_semitones == get_number_semitones(interval)
             IN  IF n_semitones.panic THEN Panic
                 ELSE add_accidentals(up_semitones(self, n_semitones.val),
                                      upper_white_note)

\* #[derive(Debug)] on WhiteNote: "{:?}" writes the variant's name.
WhiteNote_fmt(self) ==
    CASE self = "C" -> <<"C">>
      [] self = "D" -> <<"D">>
      [] self = "E" -> <<"E">>
      [] self = "F" -> <<"F">>
      [] self = "G" -> <<"G">>
      [] self = "A" -> <<"A">>
      [] self = "B" -> <<"B">>

\* Note_fmt without the B#/E#/Cb/Fb exceptions.
Note_fmt_NoExceptions(self) ==
    CASE self.kind = "WhiteNote" -> WhiteNote_fmt(self.white)
      [] self.kind = "Sharp" -> WhiteNote_fmt(self.white) \o <<"#">>
      [] self.kind = "Flat" -> WhiteNote_fmt(self.white) \o <<"b">>

\* impl fmt::Display for Note; a text is a sequence of characters.
Note_fmt(self) ==
    CASE self.kind = "WhiteNote" -> WhiteNote_fmt(self.white)
      [] self.kind = "Sharp" ->
            (CASE self.white = "B" -> <<"C">>
               [] self.white = "E" -> <<"F">>
               [] OTHER -> WhiteNote_fmt(self.white) \o <<"#">>)
      [] self.kind = "Flat" ->
            (CASE self.white = "C" -> <<"B">>
               [] self.white = "F" -> <<"E">>
               [] OTHER -> WhiteNote_fmt(self.white) \o <<"b">>)

\* s.chars().next() twice: the first two characters of s, if any.
Note_from_str(s) ==
    IF Len(s) = 0 \/ s[1] \notin WhiteNotes THEN None
    ELSE LET white_note == CASE s[1] = "C" -> "C"
                             [] s[1] = "D" -> "D"
                             [] s[1] = "E" -> "E"
                             [] s[1] = "F" -> "F"
                             [] s[1] = "G" -> "G"
                             [] s[1] = "A" -> "A"
                             [] s[1] = "B" -> "B"
         IN  IF Len(s) >= 2 /\ s[2] = "#" THEN Some(Sharp(white_note))
             ELSE IF Len(s) >= 2 /\ s[2] = "b" THEN Some(Flat(white_note))
             ELSE Some(Natural(white_note))

(***************************************************************************)
(* chords.rs                                                               *)
(***************************************************************************)
\* enum ChordQuality, in the order ChordQuality::iter() visits it
ChordQuality ==
    <<"Major", "Minor", "DominantSeventh", "MajorSeventh", "MinorSeventh">>

ChordQualities == {ChordQuality[i] : i \in 1..Len(ChordQuality)}

Chord_new(root, quality) == [root |-> root, quality |-> quality]

Chord == [root : Note, quality : ChordQualities]

\* impl fmt::Display for Chord
Chord_fmt(self) ==
    LET quality == CASE self.quality = "Major" -> <<>>
                     [] self.quality = "Minor" -> <<"m">>
                     [] self.quality = "DominantSeventh" -> <<"7">>
                     [] self.quality = "MajorSeventh" -> <<"m", "a", "j", "7">>
                     [] self.quality = "MinorSeventh" -> <<"m", "7">>
    IN  Note_fmt(self.root) \o quality

\* vec![self.root.clone(), up_interval(..), ...]: the intervals are walked in
\* order and the first panic aborts the call.
root_and_intervals(root, intervals) ==
    LET upper == [i \in 1..Len(intervals) |-> up_interval(root, intervals[i])]
    IN  IF \E i \in 1..Len(intervals) : upper[i].panic THEN Panic
        ELSE Ok(<<root>> \o [i \in 1..Len(intervals) |-> upper[i].val])

Chord_get_notes(self) ==
    CASE self.quality = "Major" ->
            root_and_intervals(self.root,
                <<Interval_new("Major", 3), Interval_new("Perfect", 5)>>)
      [] self.quality = "Minor" ->
            root_and_intervals(self.root,
                <<Interval_new("Minor", 3), Interval_new("Perfect", 5)>>)
      [] self.quality = "DominantSeventh" ->
            root_and_intervals(self.root,
                <<Interval_new("Major", 3), Interval_new("Perfect", 5),
                  Interval_new("Minor", 7)>>)
      [] self.quality = "MajorSeventh" ->
            root_and_intervals(self.root,
                <<Interval_new("Major", 3), Interval_new("Perfect", 5),
                  Interval_new("Major", 7)>>)
      [] self.quality = "MinorSeventh" ->
            root_and_intervals(self.root,
                <<Interval_new("Minor", 3), Interval_new("Perfect", 5),
                  Interval_new("Minor", 7)>>)

\* chord_notes.contains(note): compares the elements in order with ==, and
\* stops at the first equal one.
RECURSIVE contains(_, _)
contains(chord_notes, note) ==
    IF chord_notes = <<>> THEN Ok(FALSE)
    ELSE LET e == Note_eq(Head(chord_notes), note)
         IN  IF e.panic THEN Panic
             ELSE IF e.val THEN Ok(TRUE)
             ELSE contains(Tail(chord_notes), note)

\* notes.iter().all(|note| chord_notes.contains(note)): stops at the first
\* note that is not contained.
RECURSIVE all_contained(_, _)
all_contained(notes, chord_notes) ==
    IF notes = <<>> THEN Ok(TRUE)
    ELSE LET c == contains(chord_notes, Head(notes))
         IN  IF c.panic THEN Panic
             ELSE IF ~c.val THEN Ok(FALSE)
             ELSE all_contained(Tail(notes), chord_notes)

\* One iteration of the innermost loop of reverse_lookup: whether the
\* candidate chord is inserted.
candidate_matches(chord, notes) ==
    LET chord_notes == Chord_get_notes(chord)
    IN  IF chord_notes.panic THEN Panic
        ELSE all_contained(notes, chord_notes.val)

\* The loops visit every white note, its natural, sharp and flat, and every
\* quality; no iteration ends the loops early, so a panic in any iteration
\* aborts the call and otherwise every matching candidate is inserted.  The
\* set holds chords by spelling (letter, accidental, quality).
reverse_lookup(notes) ==
    LET candidates == {Chord_new(root, ChordQuality[q]) :
                          root \in {Natural(WhiteNote[w]) : w \in 1..Len(WhiteNote)}
                                \cup {Sharp(WhiteNote[w]) : w \in 1..Len(WhiteNote)}
                                \cup {Flat(WhiteNote[w]) : w \in 1..Len(WhiteNote)},
                          q \in 1..Len(ChordQuality)}
        matches == [chord \in candidates |-> candidate_matches(chord, notes)]
    IN  IF \E chord \in candidates : matches[chord].panic THEN Panic
        ELSE Ok({chord \in candidates : matches[chord].val})

\* Regex ([A-Ga-g][#b]?)((?:maj7|m7|7|m)?), unanchored: the match starts at
\* the leftmost character of the class [A-Ga-g].
RegexLetters ==
    {"A", "B", "C", "D", "E", "F", "G", "a", "b", "c", "d", "e", "f", "g"}

IsPrefix(p, s) == Len(p) <= Len(s) /\ SubSeq(s, 1, Len(p)) = p

\* ChordSuffixes with the shortest alternatives first.
ChordSuffixes_ShortestFirst ==
    <<<<"m">>, <<"7">>, <<"m", "7">>, <<"m", "a", "j", "7">>>>

\* The alternatives of the second group, in the order the regex tries them.
ChordSuffixes == <<<<"m", "a", "j", "7">>, <<"m", "7">>, <<"7">>, <<"m">>>>

\* re.captures(s): None without a match, else the two groups.
Chord_captures(s) ==
    IF \A i \in 1..Len(s) : s[i] \notin RegexLetters THEN None
    ELSE LET start == CHOOSE i \in 1..Len(s) :
                         /\ s[i] \in RegexLetters
                         /\ \A k \in 1..(i - 1) : s[k] \notin RegexLetters
             accidental == start < Len(s) /\ s[start + 1] \in {"#", "b"}
             g1 == SubSeq(s, start, IF accidental THEN start + 1 ELSE start)
             rest == SubSeq(s, start + Len(g1), Len(s))
             g2 == IF \E a \in 1..Len(ChordSuffixes) : IsPrefix(ChordSuffixes[a], rest)
                   THEN ChordSuffixes[CHOOSE a \in 1..Len(ChordSuffixes) :
                            /\ IsPrefix(ChordSuffixes[a], rest)
                            /\ \A k \in 1..(a - 1) : ~IsPrefix(ChordSuffixes[k], rest)]
                   ELSE <<>>
         IN  Some(<<g1, g2>>)

Chord_from_str(s) ==
    LET caps == Chord_captures(s)
    IN  IF ~caps.some THEN None
        ELSE LET root == Note_from_str(caps.val[1])
                 quality == CASE caps.val[2] = <<"m", "a", "j", "7">> -> "MajorSeventh"
                              [] caps.val[2] = <<"m", "7">> -> "MinorSeventh"
                              [] caps.val[2] = <<"7">> -> "DominantSeventh"
                              [] caps.val[2] = <<"m">> -> "Minor"
                              [] OTHER -> "Major"
             IN  IF ~root.some THEN None
                 ELSE Some(Chord_new(root.val, quality))

(***************************************************************************)
(* scales.rs                                                               *)
(***************************************************************************)
ScaleType == {"Major", "Minor"}

Scale_new(root, scale_type) == [root |-> root, scale_type |-> scale_type]

Scale == [root : Note, scale_type : ScaleType]

Scale_get_notes(self) ==
    CASE self.scale_type = "Major" ->
            root_and_intervals(self.root,
                <<Interval_new("Major", 2), Interval_new("Major", 3),
                  Interval_new("Perfect", 4), Interval_new("Perfect", 5),
                  Interval_new("Major", 6), Interval_new("Major", 7)>>)
      [] self.scale_type = "Minor" ->
            root_and_intervals(self.root,
                <<Interval_new("Major", 2), Interval_new("Minor", 3),
                  Interval_new("Perfect", 4), Interval_new("Perfect", 5),
                  Interval_new("Minor", 6), Interval_new("Minor", 7)>>)

\* The alternatives of the second group of the scale regex.
ScaleWords == <<<<"m", "a", "j", "o", "r">>, <<"m", "i", "n", "o", "r">>>>

\* \s* from position k of s: the position of the first character at or after
\* k that is not white space.
RECURSIVE skip_spaces(_, _)
skip_spaces(s, k) ==
    IF k <= Len(s) /\ s[k] = " " THEN skip_spaces(s, k + 1) ELSE k

\* \s*((?:major|minor)) from position k of s: the second group, if it matches.
Scale_match_word(s, k) ==
    LET rest == SubSeq(s, skip_spaces(s, k), Len(s))
    IN  IF IsPrefix(ScaleWords[1], rest) THEN Some(ScaleWords[1])
        ELSE IF IsPrefix(ScaleWords[2], rest) THEN Some(ScaleWords[2])
        ELSE None

\* The regex ([A-Ga-g][#b]?)\s*((?:major|minor)) tried at position i of s:
\* [#b]? takes the accidental when there is one, and gives it back when the
\* rest does not match with it.
Scale_match_at(s, i) ==
    IF s[i] \notin RegexLetters THEN None
    ELSE LET accidental == i < Len(s) /\ s[i + 1] \in {"#", "b"}
             with == Scale_match_word(s, i + 2)
             without == Scale_match_word(s, i + 1)
         IN  IF accidental /\ with.some THEN Some(<<SubSeq(s, i, i + 1), with.val>>)
             ELSE IF without.some THEN Some(<<SubSeq(s, i, i), without.val>>)
             ELSE None

\* re.captures(s): the match at the leftmost position that has one.
Scale_captures(s) ==
    IF \A i \in 1..Len(s) : ~Scale_match_at(s, i).some THEN None
    ELSE Scale_match_at(s, CHOOSE i \in 1..Len(s) :
                                /\ Scale_match_at(s, i).some
                                /\ \A k \in 1..(i - 1) : ~Scale_match_at(s, k).some)

Scale_from_str(s) ==
    LET caps == Scale_captures(s)
    IN  IF ~caps.some THEN None
        ELSE LET root == Note_from_str(caps.val[1])
             IN  IF ~root.some THEN None
                 ELSE IF caps.val[2] = <<"m", "a", "j", "o", "r">>
                      THEN Some(Scale_new(root.val, "Major"))
                 ELSE IF caps.val[2] = <<"m", "i", "n", "o", "r">>
                      THEN Some(Scale_new(root.val, "Minor"))
                 ELSE None

(***************************************************************************)
(* The arguments the calls are drawn from.                                 *)
(***************************************************************************)
RECURSIVE SeqsUpTo(_, _)
SeqsUpTo(S, n) ==
    IF n = 0 THEN {<<>>}
    ELSE LET shorter == SeqsUpTo(S, n - 1)
         IN  shorter \cup {Append(t, x) : t \in shorter, x \in S}

\* Texts: an optional stray character, an optional letter with an optional
\* accidental, and a tail over the characters of the chord suffixes.
StrayTexts == {<<>>, <<"x">>, <<" ">>}
LetterTexts == {<<w>> : w \in WhiteNotes} \cup {<<"c">>}
AccidentalTexts == {<<>>, <<"#">>, <<"b">>}
TailChars == {"m", "a", "j", "7"}
TailTexts == SeqsUpTo(TailChars, MaxTailLen)

Texts ==
    {j \o l \o a \o t : j \in StrayTexts, l \in LetterTexts,
                        a \in AccidentalTexts, t \in TailTexts}
        \cup {j \o t : j \in StrayTexts, t \in TailTexts}

\* Note::from_str reads two characters: it is handed the texts of at most
\* three.
NoteTexts == {s \in Texts : Len(s) <= 3}

NoteSeqs == SeqsUpTo(Note, MaxNotes)

\* Scale texts: an optional stray character, a letter with an optional
\* accidental, at most MaxSpaces spaces, and a quality word or something
\* like one.
QualityTexts ==
    {<<"m", "a", "j", "o", "r">>, <<"m", "i", "n", "o", "r">>,
     <<"m", "a", "j", "o", "r", "i", "t", "y">>, <<"m", "a", "j", "o">>,
     <<"d", "o", "r", "i", "a", "n">>, <<"M", "a", "j", "o", "r">>, <<>>}

ScaleTexts ==
    {j \o l \o a \o sp \o q : j \in StrayTexts, l \in LetterTexts,
                               a \in AccidentalTexts,
                               sp \in SeqsUpTo({" "}, MaxSpaces),
                               q \in QualityTexts}

(***************************************************************************)
(* The calls.                                                              *)
(***************************************************************************)
Init ==
    /\ overflow_checks \in BOOLEAN
    /\ pc = "called"
    /\ ret = None
    /\ \/ \E root \in Note, interval \in Interval :
             call = [op |-> "up_interval", root |-> root, interval |-> interval]
       \/ \E note \in Note : call = [op |-> "Note_fmt", note |-> note]
       \/ \E s \in NoteTexts : call = [op |-> "Note_from_str", s |-> s]
       \/ \E chord \in Chord : call = [op |-> "Chord_get_notes", chord |-> chord]
       \/ \E scale \in Scale : call = [op |-> "Scale_get_notes", scale |-> scale]
       \/ \E notes \in NoteSeqs : call = [op |-> "reverse_lookup", notes |-> notes]
       \/ \E chord \in Chord :
             /\ ~Chord_get_notes(chord).panic
             /\ call = [op |-> "reverse_lookup",
                        notes |-> Chord_get_notes(chord).val]
       \/ \E s \in Texts : call = [op |-> "Chord_from_str", s |-> s]
       \/ \E s \in ScaleTexts : call = [op |-> "Scale_from_str", s |-> s]
       \/ \E chord \in Chord : call = [op |-> "Chord_fmt", chord |-> chord]
       \/ \E note \in Note : call = [op |-> "Note_get_index", note |-> note]
       \/ \E note \in Note : call = [op |-> "up_semitone", note |-> note]
       \/ \E interval \in Interval :
             call = [op |-> "get_number_semitones", interval |-> interval]

UpInterval ==
    /\ pc = "called"
    /\ call.op = "up_interval"
    /\ ret' = up_interval(call.root, call.interval)
    /\ pc' = "returned"
    /\ UNCHANGED <<overflow_checks, call>>

NoteFmt ==
    /\ pc = "called"
    /\ call.op = "Note_fmt"
    /\ ret' = Ok(Note_fmt(call.note))
    /\ pc' = "returned"
    /\ UNCHANGED <<overflow_checks, call>>

NoteFromStr ==
    /\ pc = "called"
    /\ call.op = "Note_from_str"
    /\ ret' = Ok(Note_from_str(call.s))
    /\ pc' = "returned"
    /\ UNCHANGED <<overflow_checks, call>>

ChordGetNotes ==
    /\ pc = "called"
    /\ call.op = "Chord_get_notes"
    /\ ret' = Chord_get_notes(call.chord)
    /\ pc' = "returned"
    /\ UNCHANGED <<overflow_checks, call>>

ScaleGetNotes ==
    /\ pc = "called"
    /\ call.op = "Scale_get_notes"
    /\ ret' = Scale_get_notes(call.scale)
    /\ pc' = "returned"
    /\ UNCHANGED <<overflow_checks, call>>

ReverseLookup ==
    /\ pc = "called"
    /\ call.op = "reverse_lookup"
    /\ ret' = reverse_lookup(call.notes)
    /\ pc' = "returned"
    /\ UNCHANGED <<overflow_checks, call>>

ChordFromStr ==
    /\ pc = "called"
    /\ call.op = "Chord_from_str"
    /\ ret' = Ok(Chord_from_str(call.s))
    /\ pc' = "returned"
    /\ UNCHANGED <<overflow_checks, call>>

ScaleFromStr ==
    /\ pc = "called"
    /\ call.op = "Scale_from_str"
    /\ ret' = Ok(Scale_from_str(call.s))
    /\ pc' = "returned"
    /\ UNCHANGED <<overflow_checks, call>>

NoteGetIndex ==
    /\ pc = "called"
    /\ call.op = "Note_get_index"
    /\ ret' = Note_get_index(call.note)
    /\ pc' = "returned"
    /\ UNCHANGED <<overflow_checks, call>>

UpSemitone ==
    /\ pc = "called"
    /\ call.op = "up_semitone"
    /\ ret' = Ok(up_semitone(call.note))
    /\ pc' = "returned"
    /\ UNCHANGED <<overflow_checks, call>>

GetNumberSemitones ==
    /\ pc = "called"
    /\ call.op = "get_number_semitones"
    /\ ret' = get_number_semitones(call.interval)
    /\ pc' = "returned"
    /\ UNCHANGED <<overflow_checks, call>>

ChordFmt ==
    /\ pc = "called"
    /\ call.op = "Chord_fmt"
    /\ ret' = Ok(Chord_fmt(call.chord))
    /\ pc' = "returned"
    /\ UNCHANGED <<overflow_checks, call>>

Next ==
    \/ UpInterval
    \/ NoteFmt
    \/ NoteFromStr
    \/ ChordGetNotes
    \/ ScaleGetNotes
    \/ ReverseLookup
    \/ ChordFromStr
    \/ ScaleFromStr
    \/ NoteGetIndex
    \/ UpSemitone
    \/ GetNumberSemitones
    \/ ChordFmt

Spec == Init /\ [][Next]_vars

(***************************************************************************)
(* Vocabulary of the properties.                                           *)
(***************************************************************************)
Returned(op) == pc = "returned" /\ call.op = op

\* Semitone value of a pitch class: letter position, +1 for a sharp, -1 for
\* a flat, modulo 12.
LetterPosition(w) ==
    CASE w = "C" -> 0 [] w = "D" -> 2 [] w = "E" -> 4 [] w = "F" -> 5
      [] w = "G" -> 7 [] w = "A" -> 9 [] w = "B" -> 11

SemitoneValue(note) ==
    CASE note.kind = "WhiteNote" -> LetterPosition(note.white)
      [] note.kind = "Sharp" -> (LetterPosition(note.white) + 1) % 12
      [] note.kind = "Flat" -> (LetterPosition(note.white) - 1) % 12

\* The supported intervals and their semitone counts.
SupportedIntervals ==
    [quality : {"Perfect"}, number : {1, 4, 5, 8}]
        \cup [quality : {"Major", "Minor"}, number : {2, 3, 6, 7}]

IntervalSemitones(interval) ==
    LET major == CASE interval.number = 2 -> 2 [] interval.number = 3 -> 4
                   [] interval.number = 6 -> 9 [] interval.number = 7 -> 11
                   [] OTHER -> 0
    IN  CASE interval.quality = "Perfect" ->
                (CASE interval.number = 1 -> 0 [] interval.number = 4 -> 5
                   [] interval.number = 5 -> 7 [] interval.number = 8 -> 12)
          [] interval.quality = "Major" -> major
          [] interval.quality = "Minor" -> major - 1

\* The letter `steps` places after w in the cycle C,D,E,F,G,A,B.
LetterAfter(w, steps) ==
    WhiteNote[((WhiteNote_get_index(w) + steps) % 7) + 1]

(***************************************************************************)
(* C1: for every root and every supported interval, up_interval returns a  *)
(* pitch class whose semitone value is (root semitone value + interval     *)
(* semitone count) mod 12, also across the B/C boundary.                   *)
(***************************************************************************)
C1_UpIntervalSemitones ==
    (Returned("up_interval") /\ call.interval \in SupportedIntervals) =>
        /\ ~ret.panic
        /\ SemitoneValue(ret.val) =
              (SemitoneValue(call.root) + IntervalSemitones(call.interval)) % 12

(***************************************************************************)
(* C2: for every root and every supported interval with number n,          *)
(* up_interval returns a pitch class spelled on the letter n-1 steps after *)
(* the root's letter, and the Natural of that letter when the walked pitch *)
(* sounds like it.                                                         *)
(***************************************************************************)
C2_UpIntervalLetter ==
    (Returned("up_interval") /\ call.interval \in SupportedIntervals) =>
        LET target == LetterAfter(call.root.white, call.interval.number - 1)
            walked == up_semitones(call.root,
                                   IntervalSemitones(call.interval))
        IN  /\ ~ret.panic
            /\ ret.val.white = target
            /\ SemitoneValue(walked) = SemitoneValue(Natural(target))
                  => ret.val = Natural(target)

\* Semitone offsets above the root of the notes of a chord and of a scale.
ChordOffsets(quality) ==
    CASE quality = "Major" -> <<0, 4, 7>>
      [] quality = "Minor" -> <<0, 3, 7>>
      [] quality = "DominantSeventh" -> <<0, 4, 7, 10>>
      [] quality = "MajorSeventh" -> <<0, 4, 7, 11>>
      [] quality = "MinorSeventh" -> <<0, 3, 7, 10>>

ScaleOffsets(scale_type) ==
    CASE scale_type = "Major" -> <<0, 2, 4, 5, 7, 9, 11>>
      [] scale_type = "Minor" -> <<0, 2, 3, 5, 7, 8, 10>>

\* notes is root first, then the notes at the offsets above root (mod 12).
SoundsAt(notes, root, offsets) ==
    /\ Len(notes) = Len(offsets)
    /\ notes[1] = root
    /\ \A i \in 1..Len(offsets) :
          SemitoneValue(notes[i]) = (SemitoneValue(root) + offsets[i]) % 12

(***************************************************************************)
(* C3: for every root and chord quality, Chord::get_notes completes and    *)
(* returns the root followed by the notes at the quality's semitone        *)
(* offsets above the root, 3 notes for triads and 4 for seventh chords.    *)
(***************************************************************************)
C3_ChordGetNotes ==
    Returned("Chord_get_notes") =>
        /\ ~ret.panic
        /\ SoundsAt(ret.val, call.chord.root, ChordOffsets(call.chord.quality))

(***************************************************************************)
(* C4: for every root, Scale::get_notes returns 7 pitch classes, root      *)
(* first, at offsets [0,2,4,5,7,9,11] (Major) or [0,2,3,5,7,8,10] (Minor)  *)
(* above the root.                                                         *)
(***************************************************************************)
C4_ScaleGetNotes ==
    Returned("Scale_get_notes") =>
        /\ ~ret.panic
        /\ SoundsAt(ret.val, call.scale.root, ScaleOffsets(call.scale.scale_type))

(***************************************************************************)
(* C5: for every chord c, reverse_lookup applied to the notes of c         *)
(* completes and returns a set that contains c.                            *)
(***************************************************************************)
C5_ReverseLookupOfChordNotes ==
    Returned("reverse_lookup") =>
        \A c \in Chord :
            LET notes == Chord_get_notes(c)
            IN  (~notes.panic /\ notes.val = call.notes) =>
                    (~ret.panic /\ c \in ret.val)

(***************************************************************************)
(* C6: for every input sequence of pitch classes, reverse_lookup completes *)
(* and a candidate chord is in the result if and only if every input note  *)
(* is equal by semitone value to some note of that chord.                  *)
(***************************************************************************)
C6_ReverseLookupMatches ==
    Returned("reverse_lookup") =>
        /\ ~ret.panic
        /\ \A c \in Chord :
              LET notes == Chord_get_notes(c)
              IN  c \in ret.val <=>
                    /\ ~notes.panic
                    /\ \A i \in 1..Len(call.notes) :
                          \E j \in 1..Len(notes.val) :
                              SemitoneValue(call.notes[i]) =
                                  SemitoneValue(notes.val[j])

(***************************************************************************)
(* C7: for every pitch class p, Note::from_str applied to the displayed    *)
(* text of p returns a pitch class that compares equal to p, and the       *)
(* comparison completes.                                                   *)
(***************************************************************************)
C7_NoteRoundTrip ==
    Returned("Note_from_str") =>
        \A p \in Note :
            Note_fmt(p) = call.s =>
                /\ ret.val.some
                /\ LET e == Note_eq(ret.val.val, p) IN ~e.panic /\ e.val

(***************************************************************************)
(* C8: Natural(w) displays as the bare letter; Sharp(w) as the letter and  *)
(* "#", except Sharp(B) -> "C" and Sharp(E) -> "F"; Flat(w) as the letter  *)
(* and "b", except Flat(C) -> "B" and Flat(F) -> "E".                      *)
(***************************************************************************)
C8_NoteDisplay ==
    Returned("Note_fmt") =>
        LET w == call.note.white
        IN  /\ ~ret.panic
            /\ call.note.kind = "WhiteNote" => ret.val = <<w>>
            /\ call.note.kind = "Sharp" =>
                  ret.val = IF w = "B" THEN <<"C">>
                            ELSE IF w = "E" THEN <<"F">>
                            ELSE <<w, "#">>
            /\ call.note.kind = "Flat" =>
                  ret.val = IF w = "C" THEN <<"B">>
                            ELSE IF w = "F" THEN <<"E">>
                            ELSE <<w, "b">>

C8_Witness ==
    /\ Returned("Note_fmt")
    /\ call.note = Sharp("B")
    /\ ret = Ok(<<"C">>)

\* The pitch class written as letter w and accidental text a.
Written(w, a) ==
    IF a = <<"#">> THEN Sharp(w) ELSE IF a = <<"b">> THEN Flat(w) ELSE Natural(w)

\* The five chord suffixes and the quality of each.
SuffixQuality ==
    {<< <<>>, "Major" >>, << <<"m">>, "Minor" >>, << <<"7">>, "DominantSeventh" >>,
     << <<"m", "a", "j", "7">>, "MajorSeventh" >>, << <<"m", "7">>, "MinorSeventh" >>}

(***************************************************************************)
(* C9: for every root written as an uppercase letter with an optional '#'  *)
(* or 'b', Chord::from_str of the root text followed by "", "m", "7",      *)
(* "maj7" or "m7" returns the chord with that root and quality Major,      *)
(* Minor, DominantSeventh, MajorSeventh or MinorSeventh respectively.      *)
(***************************************************************************)
C9_ChordFromStrSuffixes ==
    Returned("Chord_from_str") =>
        \A w \in WhiteNotes, a \in AccidentalTexts, sq \in SuffixQuality :
            call.s = <<w>> \o a \o sq[1] =>
                ret = Ok(Some(Chord_new(Written(w, a), sq[2])))

C9_Witness ==
    /\ Returned("Chord_from_str")
    /\ call.s = <<"C", "#", "m", "7">>
    /\ ret = Ok(Some(Chord_new(Sharp("C"), "MinorSeventh")))

(***************************************************************************)
(* C10: for every text that is a valid pitch class followed by a suffix    *)
(* that is not one of "maj7", "m7", "7", "m" or the empty string,          *)
(* Chord::from_str returns a chord with that root and quality Major.       *)
(***************************************************************************)
C10_UnrecognizedSuffixIsMajor ==
    Returned("Chord_from_str") =>
        \A w \in WhiteNotes, a \in AccidentalTexts, t \in TailTexts :
            (/\ call.s = <<w>> \o a \o t
             /\ t \notin {sq[1] : sq \in SuffixQuality}) =>
                ret = Ok(Some(Chord_new(Written(w, a), "Major")))

(***************************************************************************)
(* C11: Chord::from_str returns None for every text whose first character  *)
(* is not one of the uppercase letters A-G, also when a valid pitch class  *)
(* appears later in the text.                                              *)
(***************************************************************************)
C11_ChordFromStrLeadingPitch ==
    (Returned("Chord_from_str") /\ (call.s = <<>> \/ call.s[1] \notin WhiteNotes)) =>
        ret = Ok(None)

\* The texts made of a pitch class, white space and "major" or "minor"
\* (read generously: any number of spaces).
WellFormedScaleTexts ==
    {<<w>> \o a \o sp \o ScaleWords[q] :
        w \in WhiteNotes, a \in AccidentalTexts,
        sp \in SeqsUpTo({" "}, MaxSpaces), q \in 1..Len(ScaleWords)}

(***************************************************************************)
(* C12: Scale::from_str returns a scale only for text of the form pitch    *)
(* class, space, "major" or "minor", and None whenever the pitch at the    *)
(* start of the text cannot be parsed or the quality word is neither       *)
(* exactly "major" nor exactly "minor".                                    *)
(***************************************************************************)
C12_ScaleFromStrRejects ==
    Returned("Scale_from_str") =>
        (ret.val.some => call.s \in WellFormedScaleTexts)

(***************************************************************************)
(* C13: for every pitch class, Note::get_index returns a value in 0..11    *)
(* without underflow or abort: the letter's position for a natural,        *)
(* (position + 1) mod 12 for a sharp, (position - 1) mod 12 for a flat; in *)
(* particular Flat(C) has value 11 and Sharp(B) has value 0.               *)
(***************************************************************************)
C13_GetIndexInRange ==
    Returned("Note_get_index") =>
        /\ ~ret.panic
        /\ ret.val \in 0..11
        /\ ret.val = SemitoneValue(call.note)

(***************************************************************************)
(* C14: for every pitch class p, the semitone value of up_semitone(p) is   *)
(* (semitone value of p + 1) mod 12, and both semitone values can be       *)
(* computed without aborting.                                              *)
(***************************************************************************)
C14_UpSemitoneAddsOne ==
    Returned("up_semitone") =>
        LET above == Note_get_index(ret.val)
            below == Note_get_index(call.note)
        IN  /\ ~above.panic
            /\ ~below.panic
            /\ above.val = (below.val + 1) % 12

\* How many semitones (mod 12) the pitch walked up from root by the interval
\* lies above the natural of the interval's target letter.
Offset(root, interval) ==
    LET target == LetterAfter(root.white, interval.number - 1)
        walked == up_semitones(root, IntervalSemitones(interval))
    IN  (SemitoneValue(walked) - SemitoneValue(Natural(target))) % 12

(***************************************************************************)
(* C15: for every root and interval for which the walked pitch is neither  *)
(* equal to, one semitone below nor one semitone above (mod 12) the        *)
(* natural of the target letter, up_interval aborts instead of returning   *)
(* a pitch class.                                                          *)
(***************************************************************************)
C15_UpIntervalAbortsOnOffset ==
    (/\ Returned("up_interval")
     /\ call.interval \in SupportedIntervals
     /\ Offset(call.root, call.interval) \notin {0, 1, 11}) =>
        ret.panic

\* The interval table: Perfect and Major by number, Minor = Major - 1,
\* Augmented = Perfect + 1, Diminished = Perfect - 1.
InTable(interval) ==
    IF interval.quality \in {"Major", "Minor"}
    THEN interval.number \in {2, 3, 6, 7}
    ELSE interval.number \in {1, 4, 5, 8}

TableValue(interval) ==
    LET perfect == CASE interval.number = 1 -> 0 [] interval.number = 4 -> 5
                     [] interval.number = 5 -> 7 [] interval.number = 8 -> 12
                     [] OTHER -> 0
        major == CASE interval.number = 2 -> 2 [] interval.number = 3 -> 4
                   [] interval.number = 6 -> 9 [] interval.number = 7 -> 11
                   [] OTHER -> 0
    IN  CASE interval.quality = "Perfect" -> perfect
          [] interval.quality = "Major" -> major
          [] interval.quality = "Minor" -> major - 1
          [] interval.quality = "Augmented" -> perfect + 1
          [] interval.quality = "Diminished" -> perfect - 1

(***************************************************************************)
(* C16: for every quality and every number in 1..8, get_number_semitones   *)
(* either returns the table value or aborts; it aborts for every           *)
(* combination outside the table and never returns a negative or           *)
(* wrapped-around count (e.g. for Diminished 1).                           *)
(***************************************************************************)
C16_NumberSemitonesTableOrAbort ==
    (Returned("get_number_semitones") /\ call.interval.number \in 1..8) =>
        \/ ret.panic
        \/ /\ InTable(call.interval)
           /\ ret.val = TableValue(call.interval)
           /\ ret.val \in 0..13

(***************************************************************************)
(* C17: for every pitch class p, up_interval(p, Perfect 1) completes and   *)
(* returns p with the same letter and the same accidental.                 *)
(***************************************************************************)
C17_UnisonIsIdentity ==
    (Returned("up_interval") /\ call.interval = Interval_new("Perfect", 1)) =>
        ret = Ok(call.root)

====
